---- MODULE Spec2Model ----
(***************************************************************************)
(* Model of the spare-part-finder mock service: the text classifier        *)
(* interpretPartFromText and its HTTP handler interpretPartFromDescription *)
(* (src/utils/matchUtils.js, src/controllers/partController.js), the offer *)
(* synthesizer generateSellersForPart with its handler getSellersForPart   *)
(* (src/utils/matchUtils.js, src/controllers/sellerController.js), the     *)
(* routers of the vehicle and part endpoints with their handlers           *)
(* (src/routes), and the store of part requests behind createPartRequest   *)
(* and getRequestStatus (src/controllers/sellerController.js).             *)
(*                                                                         *)
(* Text.  A JavaScript string is a sequence of UTF-16 code units; here it  *)
(* is a sequence of one-unit tokens.  ASCII characters stand for           *)
(* themselves.  The Turkish letters are written as ASCII tokens:           *)
(*   "c," c-cedilla   "g^" soft g   "i-" dotless i   "o:" o-umlaut         *)
(*   "s," s-cedilla   "u:" u-umlaut                                        *)
(*   "C," "G^" "O:" "S," "U:" their capitals, "I" capital dotless I,       *)
(*   "I." capital dotted I, "^." the combining dot above (U+0307).         *)
(* Display names of parts are ASCII transliterations of the source's.      *)
(*                                                                         *)
(* Numbers.  Confidences are IEEE doubles in the source.  Here a           *)
(* confidence c is the integer c * ConfScale; every product and quotient   *)
(* the classifier forms is exact at that scale, and the doubles the source *)
(* computes for the 44 (category, match count) pairs are ordered and tied  *)
(* exactly as these rationals are.                                         *)
(***************************************************************************)
EXTENDS Integers, Sequences, FiniteSets, TLC

VARIABLES
  vin,            \* req.body.vin of the request in hand
  description,    \* req.body.description of the request in hand
  partId,         \* req.params.partId of the request in hand
  mockSellers,    \* the seller data: global_sellers, and the entry of partId
  pc,             \* "request" until the request in hand has been served
  suggestedPart,  \* what interpretPartFromText returned to a direct caller
  sellers,        \* what generateSellersForPart returned to a direct caller
  response,       \* the response the handler sent
  request,        \* the HTTP request the application routes
  handler,        \* the controller function the routers passed the request to
  pendingRequests,\* the Map of part requests, keyed by requestId
  now,            \* Date.now(), in milliseconds
  created         \* the requestIds createPartRequest has answered with

vars == <<vin, description, partId, mockSellers, pc, suggestedPart, sellers, response,
          request, handler, pendingRequests, now, created>>

\* the state of the routers and of the part requests
routeVars == <<request, handler>>
requestVars == <<pendingRequests, now, created>>

\* ------------------------------------------------------------------ bounds

\* A description is at most this many phrases of the vocabulary.
MaxPhrases == 2

\* mockSellers.global_sellers holds at most this many sellers.
MaxPool == 6

\* ----------------------------------------------------------------- numbers

ConfScale == 1000 * 360

Percent(p) == p * (ConfScale \div 100)

Min(a, b) == IF a < b THEN a ELSE b

\* a * b at ConfScale, for a a whole number of percent
Mul(a, b) == ((a \div (ConfScale \div 100)) * b) \div 100

\* -------------------------------------------------------------------- text

UpperCaseLetters ==
  <<"A", "B", "C", "D", "E", "F", "G", "H", "I", "J", "K", "L", "M", "N", "O", "P", "Q", "R",
    "S", "T", "U", "V", "W", "X", "Y", "Z", "C,", "G^", "O:", "S,", "U:">>

LowerCaseLetters ==
  <<"a", "b", "c", "d", "e", "f", "g", "h", "i", "j", "k", "l", "m", "n", "o", "p", "q", "r",
    "s", "t", "u", "v", "w", "x", "y", "z", "c,", "g^", "o:", "s,", "u:">>

\* String.prototype.toLowerCase on one code unit: locale-independent, so the
\* capital dotless I becomes the dotted i, and the capital dotted I becomes
\* the dotted i followed by a combining dot.
LowerCaseOf(c) ==
  IF c = "I." THEN <<"i", "^.">>
  ELSE IF \E k \in 1..Len(UpperCaseLetters) : UpperCaseLetters[k] = c
       THEN <<LowerCaseLetters[CHOOSE k \in 1..Len(UpperCaseLetters) : UpperCaseLetters[k] = c]>>
       ELSE <<c>>

\* String.prototype.toLowerCase, unit by unit (split in halves to keep the
\* evaluation shallow)
RECURSIVE toLowerCase(_)
toLowerCase(s) ==
  IF s = <<>> THEN <<>>
  ELSE IF Len(s) = 1 THEN LowerCaseOf(s[1])
  ELSE LET h == Len(s) \div 2
       IN  toLowerCase(SubSeq(s, 1, h)) \o toLowerCase(SubSeq(s, h + 1, Len(s)))

\* String.prototype.includes
includes(text, keyword) ==
  \E i \in 0..(Len(text) - Len(keyword)) : \A j \in 1..Len(keyword) : text[i + j] = keyword[j]

RECURSIVE trimStart(_)
trimStart(s) == IF s # <<>> /\ Head(s) = " " THEN trimStart(Tail(s)) ELSE s

RECURSIVE trimEnd(_)
trimEnd(s) == IF s # <<>> /\ s[Len(s)] = " " THEN trimEnd(SubSeq(s, 1, Len(s) - 1)) ELSE s

\* String.prototype.trim
trim(s) == trimEnd(trimStart(s))

\* ------------------------------------------------------------- classifier

partMappings ==
  <<
  [ category |-> "fren",
    keywords |-> <<
      <<"f", "r", "e", "n">>,
      <<"b", "a", "l", "a", "t", "a">>,
      <<"d", "i", "s", "k">>,
      <<"d", "u", "r", "m", "u", "y", "o", "r">>,
      <<"t", "u", "t", "m", "u", "y", "o", "r">>,
      <<"g", "i-", "c", "i-", "r", "d", "i-", "y", "o", "r">>,
      <<"s", "e", "s">>,
      <<"t", "i", "t", "r", "e", "s,", "i", "m">>,
      <<"p", "e", "d", "a", "l">> >>,
    parts |-> <<
      [name |-> "Fren Balatasi On", id |-> "part-fren-001", confidence |-> Percent(90)],
      [name |-> "Fren Balatasi Arka", id |-> "part-fren-002", confidence |-> Percent(85)],
      [name |-> "Fren Diski On", id |-> "part-fren-003", confidence |-> Percent(80)],
      [name |-> "ABS Sensoru", id |-> "part-fren-010", confidence |-> Percent(70)] >> ],
  [ category |-> "motor",
    keywords |-> <<
      <<"m", "o", "t", "o", "r">>,
      <<"c,", "a", "l", "i-", "s,", "m", "i-", "y", "o", "r">>,
      <<"t", "i", "t", "r", "e", "s,", "i", "m">>,
      <<"s", "e", "s">>,
      <<"d", "u", "m", "a", "n">>,
      <<"y", "a", "g^">>,
      <<"s", "o", "g^", "u", "t", "m", "a">>,
      <<"i-", "s", "i-", "n", "m", "a">>,
      <<"g", "u:", "c,">>,
      <<"p", "e", "r", "f", "o", "r", "m", "a", "n", "s">> >>,
    parts |-> <<
      [name |-> "Motor Yagi", id |-> "part-motor-037", confidence |-> Percent(80)],
      [name |-> "Hava Filtresi", id |-> "part-motor-016", confidence |-> Percent(75)],
      [name |-> "Buji", id |-> "part-motor-020", confidence |-> Percent(70)],
      [name |-> "Yag Filtresi", id |-> "part-motor-017", confidence |-> Percent(70)] >> ],
  [ category |-> "elektrik",
    keywords |-> <<
      <<"e", "l", "e", "k", "t", "r", "i", "k">>,
      <<"a", "k", "u:">>,
      <<"s,", "a", "r", "j">>,
      <<"c,", "a", "l", "i-", "s,", "m", "i-", "y", "o", "r">>,
      <<"i-", "s,", "i-", "k">>,
      <<"f", "a", "r">>,
      <<"s", "i", "n", "y", "a", "l">>,
      <<"k", "l", "a", "k", "s", "o", "n">>,
      <<"c", "a", "m">> >>,
    parts |-> <<
      [name |-> "Aku", id |-> "part-elektrik-001", confidence |-> Percent(90)],
      [name |-> "Alternator", id |-> "part-elektrik-002", confidence |-> Percent(80)],
      [name |-> "Far Ampulu", id |-> "part-elektrik-010", confidence |-> Percent(70)],
      [name |-> "Sigorta Kutusu", id |-> "part-elektrik-006", confidence |-> Percent(60)] >> ],
  [ category |-> "suspansiyon",
    keywords |-> <<
      <<"a", "m", "o", "r", "t", "i", "s", "o:", "r">>,
      <<"y", "a", "y">>,
      <<"s", "a", "l", "i-", "n", "c", "a", "k">>,
      <<"d", "i", "r", "e", "k", "s", "i", "y", "o", "n">>,
      <<"t", "i", "t", "r", "e", "s,", "i", "m">>,
      <<"s", "a", "r", "s", "i-", "n", "t", "i-">>,
      <<"s", "e", "s">>,
      <<"c,", "u", "k", "u", "r">> >>,
    parts |-> <<
      [name |-> "Amortisor On Sol", id |-> "part-suspansiyon-001", confidence |-> Percent(85)],
      [name |-> "Amortisor On Sag", id |-> "part-suspansiyon-002", confidence |-> Percent(85)],
      [name |-> "Stabilizator Cubugu", id |-> "part-suspansiyon-023", confidence |-> Percent(70)],
      [name |-> "Rotil", id |-> "part-suspansiyon-013", confidence |-> Percent(65)] >> ],
  [ category |-> "klima",
    keywords |-> <<
      <<"k", "l", "i", "m", "a">>,
      <<"s", "o", "g^", "u", "t", "m", "u", "y", "o", "r">>,
      <<"i-", "s", "i-", "t", "m", "i-", "y", "o", "r">>,
      <<"h", "a", "v", "a">>,
      <<"f", "a", "n">>,
      <<"f", "i", "l", "t", "r", "e">>,
      <<"g", "a", "z">>,
      <<"k", "o", "m", "p", "r", "e", "s", "o:", "r">> >>,
    parts |-> <<
      [name |-> "Klima Filtresi", id |-> "part-klima-004", confidence |-> Percent(80)],
      [name |-> "Klima Kompresoru", id |-> "part-klima-001", confidence |-> Percent(75)],
      [name |-> "Klima Gazi R134a", id |-> "part-klima-005", confidence |-> Percent(70)],
      [name |-> "Kabin Filtresi", id |-> "part-klima-022", confidence |-> Percent(65)] >> ]
  >>

Null == [null |-> TRUE]

\* keywordMatches of the forEach over mapping.keywords
CountKeywordMatches(text, keywords) ==
  Cardinality({k \in 1..Len(keywords) : includes(text, keywords[k])})

\* mutant: the Math.min(0.95, ...) ceiling left out
DensityConfidence_NoCeiling(keywordMatches, total) ==
  (keywordMatches * Percent(80)) \div total + Percent(20)

\* Math.min(0.95, (keywordMatches / mapping.keywords.length) * 0.8 + 0.2)
DensityConfidence(keywordMatches, total) ==
  Min(Percent(95), (keywordMatches * Percent(80)) \div total + Percent(20))

\* mutant: the part's base weight left out of the product
AdjustedConfidence_Unweighted(bestPart, confidence) == confidence

\* bestPart.confidence * confidence
AdjustedConfidence(bestPart, confidence) == Mul(bestPart.confidence, confidence)

\* mutant: >= for >, so that a later category takes a tie
ReplacesBest_OrEqual(adjustedConfidence, highestConfidence) ==
  adjustedConfidence >= highestConfidence

\* mutant: only the first matching category is ever taken
ReplacesBest_FirstOnly(adjustedConfidence, highestConfidence) == highestConfidence = 0

\* the test that lets a category replace the best match so far
ReplacesBest(adjustedConfidence, highestConfidence) == adjustedConfidence > highestConfidence

\* mutant: the guard keywordMatches > 0 left out
AnalyzeCategory_NoMatchGuard(text, mapping, best) ==
  LET keywordMatches == CountKeywordMatches(text, mapping.keywords)
      confidence == DensityConfidence(keywordMatches, Len(mapping.keywords))
      bestPart == mapping.parts[1]
      adjustedConfidence == AdjustedConfidence(bestPart, confidence)
  IN  IF ReplacesBest(adjustedConfidence, best.highestConfidence)
      THEN [ bestMatch |-> [ name |-> bestPart.name,
                             id |-> bestPart.id,
                             confidence |-> adjustedConfidence,
                             category |-> mapping.category,
                             matchedKeywords |-> keywordMatches ],
             highestConfidence |-> adjustedConfidence ]
      ELSE best

\* one turn of the loop over Object.entries(partMappings)
AnalyzeCategory(text, mapping, best) ==
  LET keywordMatches == CountKeywordMatches(text, mapping.keywords)
      confidence == DensityConfidence(keywordMatches, Len(mapping.keywords))
      bestPart == mapping.parts[1]
      adjustedConfidence == AdjustedConfidence(bestPart, confidence)
  IN  IF keywordMatches > 0 /\ ReplacesBest(adjustedConfidence, best.highestConfidence)
      THEN [ bestMatch |-> [ name |-> bestPart.name,
                             id |-> bestPart.id,
                             confidence |-> adjustedConfidence,
                             category |-> mapping.category,
                             matchedKeywords |-> keywordMatches ],
             highestConfidence |-> adjustedConfidence ]
      ELSE best

RECURSIVE AnalyzeFrom(_, _, _)
AnalyzeFrom(text, i, best) ==
  IF i > Len(partMappings) THEN best
  ELSE AnalyzeFrom(text, i + 1, AnalyzeCategory(text, partMappings[i], best))

FallbackPart ==
  [ name |-> "Genel Kontrol Gerekli",
    id |-> "part-general-001",
    confidence |-> Percent(30),
    category |-> "general",
    matchedKeywords |-> 0 ]

interpretPartFromText(d, v) ==
  LET text == toLowerCase(d)
      best == AnalyzeFrom(text, 1, [bestMatch |-> Null, highestConfidence |-> 0])
  IN  IF best.bestMatch = Null THEN FallbackPart ELSE best.bestMatch

\* ------------------------------------------------ interpret: the handler

VinCharacters ==
  {"A", "B", "C", "D", "E", "F", "G", "H", "J", "K", "L", "M", "N", "P", "R", "S", "T", "U",
   "V", "W", "X", "Y", "Z", "0", "1", "2", "3", "4", "5", "6", "7", "8", "9"}

\* /^[A-HJ-NPR-Z0-9]{17}$/i after the guard against a missing vin
isValidVIN(v) ==
  /\ v # <<>>
  /\ Len(v) = 17
  /\ \A k \in 1..Len(v) :
       \E u \in VinCharacters : v[k] = u \/ <<v[k]>> = LowerCaseOf(u)

VinKnown ==
  <<"W", "D", "B", "2", "0", "2", "0", "2", "0", "1", "F", "6", "8", "5", "7", "9", "0">>

VinLowerCase ==
  <<"w", "d", "b", "2", "0", "2", "0", "2", "0", "1", "f", "6", "8", "5", "7", "9", "0">>

VinBadLetter ==
  <<"W", "D", "B", "2", "0", "2", "0", "2", "0", "1", "F", "6", "8", "5", "7", "9", "O">>

VinShort ==
  <<"W", "D", "B", "2", "0", "2", "0", "2", "0", "1", "F", "6", "8", "5", "7", "9">>

\* the vehicle the README's examples query
mockVehicles ==
  << [ vin |-> VinKnown,
       make |-> <<"M", "e", "r", "c", "e", "d", "e", "s", "-", "B", "e", "n", "z">>,
       model |-> <<"A", "1", "8", "0">>,
       year |-> 2020,
       categories |->
         << <<"M", "o", "t", "o", "r">>, <<"F", "r", "e", "n">>, <<"G", "o:", "v", "d", "e">>, <<"E", "l", "e", "k", "t", "r", "i", "k">>,
            <<"S", "u:", "s", "p", "a", "n", "s", "i", "y", "o", "n">>,
            <<"K", "l", "i", "m", "a">>, <<"I.", "c,", " ", "A", "k", "s", "a", "m">> >> ] >>

Vehicles(v) == {k \in 1..Len(mockVehicles) : mockVehicles[k].vin = v}

\* Math.round(suggestedPart.confidence * 100) / 100
RoundToHundredths(c) == ((200 * c + ConfScale) \div (2 * ConfScale)) * (ConfScale \div 100)

getConfidenceLevel(confidence) ==
  IF confidence >= Percent(80) THEN "Yuksek"
  ELSE IF confidence >= Percent(60) THEN "Orta"
  ELSE IF confidence >= Percent(40) THEN "Dusuk"
  ELSE "Cok Dusuk"

RecHighConfidence == "Bu parca tahmini yuksek guvenilirlik seviyesinde"
RecFren == "Fren parcalari guvenlik acisindan kritiktir, profesyonel montaj onerilir"
RecMotor == "Motor parcalari icin orijinal parca kullanimi onerilir"
RecMoreDetail == "Daha detayli aciklama ile daha kesin sonuc alabilirsiniz"
RecExpert == "Bir uzmanla gorusmeniz onerilir"

generateRecommendations(part) ==
  (IF part.confidence > Percent(70) THEN <<RecHighConfidence>> ELSE <<>>)
  \o (IF part.category = "fren" THEN <<RecFren>> ELSE <<>>)
  \o (IF part.category = "motor" THEN <<RecMotor>> ELSE <<>>)
  \o (IF part.confidence < Percent(50) THEN <<RecMoreDetail, RecExpert>> ELSE <<>>)

\* mutant: the vehicle is looked up before the description is measured
InterpretRejection_VehicleFirst(v, d) ==
  IF v = <<>> \/ d = <<>>
  THEN [status |-> 400, error |-> "Missing required fields"]
  ELSE IF ~isValidVIN(v)
  THEN [status |-> 400, error |-> "Invalid VIN format"]
  ELSE IF Vehicles(v) = {}
  THEN [status |-> 404, error |-> "Vehicle not found"]
  ELSE IF Len(trim(d)) < 5
  THEN [status |-> 400, error |-> "Description too short"]
  ELSE Null

\* the error response of the first check of interpretPartFromDescription that
\* the body {vin, description} fails, Null when it passes them all
InterpretRejection(v, d) ==
  IF v = <<>> \/ d = <<>>
  THEN [status |-> 400, error |-> "Missing required fields"]
  ELSE IF ~isValidVIN(v)
  THEN [status |-> 400, error |-> "Invalid VIN format"]
  ELSE IF Len(trim(d)) < 5
  THEN [status |-> 400, error |-> "Description too short"]
  ELSE IF Vehicles(v) = {}
  THEN [status |-> 404, error |-> "Vehicle not found"]
  ELSE Null

\* the response interpretPartFromDescription sends for the body {vin, description}
InterpretResponse(v, d) ==
  IF InterpretRejection(v, d) # Null
  THEN InterpretRejection(v, d)
  ELSE
    LET vehicle == mockVehicles[CHOOSE k \in Vehicles(v) : \A j \in Vehicles(v) : k <= j]
        part == interpretPartFromText(d, v)
    IN  [ status |-> 200,
          success |-> TRUE,
          vehicle |-> [ vin |-> vehicle.vin, make |-> vehicle.make,
                        model |-> vehicle.model, year |-> vehicle.year ],
          suggestedPart |-> [ name |-> part.name,
                              id |-> part.id,
                              confidence |-> RoundToHundredths(part.confidence) ],
          analysis |-> [ originalDescription |-> d,
                         processedText |-> toLowerCase(d),
                         detectedKeywords |-> part.matchedKeywords,
                         category |-> part.category,
                         confidenceLevel |-> getConfidenceLevel(part.confidence) ],
          recommendations |-> generateRecommendations(part) ]

\* ------------------------------------------------------ request vocabulary

\* five of the eight suspansiyon keywords, none of them shared
PhraseFiveSuspansiyon ==
  <<"a", "m", "o", "r", "t", "i", "s", "o:", "r", " ", "y", "a", "y", " ", "s", "a", "l", "i-",
    "n", "c", "a", "k", " ", "d", "i", "r", "e", "k", "s", "i", "y", "o", "n", " ", "s", "a",
    "r", "s", "i-", "n", "t", "i-">>

PhraseFren ==
  <<"f", "r", "e", "n">>
PhraseScenario ==
  <<"f", "r", "e", "n", " ", "t", "u", "t", "m", "u", "y", "o", "r", " ", "a", "r", "k", "a",
    " ", "k", "i-", "s", "i-", "m", "d", "a", "n", " ", "s", "e", "s", " ", "g", "e", "l", "i",
    "y", "o", "r">>
PhraseAku ==
  <<"a", "k", "u:">>
PhraseCalismiyor ==
  <<"c,", "a", "l", "i-", "s,", "m", "i-", "y", "o", "r">>
PhraseSes ==
  <<"s", "e", "s">>
PhraseKlima ==
  <<"k", "l", "i", "m", "a">>
PhraseAmortisor ==
  <<"a", "m", "o", "r", "t", "i", "s", "o:", "r">>
PhraseNoise ==
  <<"l", "a", "s", "t", "i", "k", " ", "p", "a", "t", "l", "a", "d", "i-">>
PhraseUpperFren ==
  <<"F", "R", "E", "N">>
PhraseUpperIsik ==
  <<"I", "S,", "I", "K">>
PhraseMidWord ==
  <<"f", "r", "e", "n", "l", "e", "m", "e">>
PhraseAllFren ==
  <<"f", "r", "e", "n", " ", "b", "a", "l", "a", "t", "a", " ", "d", "i", "s", "k", " ", "d",
    "u", "r", "m", "u", "y", "o", "r", " ", "t", "u", "t", "m", "u", "y", "o", "r", " ", "g",
    "i-", "c", "i-", "r", "d", "i-", "y", "o", "r", " ", "s", "e", "s", " ", "t", "i", "t",
    "r", "e", "s,", "i", "m", " ", "p", "e", "d", "a", "l">>
PhraseFiveMotor ==
  <<"m", "o", "t", "o", "r", " ", "d", "u", "m", "a", "n", " ", "y", "a", "g^", " ", "g", "u:",
    "c,", " ", "p", "e", "r", "f", "o", "r", "m", "a", "n", "s">>
PhraseFourKlima ==
  <<"k", "l", "i", "m", "a", " ", "h", "a", "v", "a", " ", "f", "a", "n", " ", "g", "a", "z">>
PhraseAllElektrik ==
  <<"e", "l", "e", "k", "t", "r", "i", "k", " ", "a", "k", "u:", " ", "s,", "a", "r", "j", " ",
    "c,", "a", "l", "i-", "s,", "m", "i-", "y", "o", "r", " ", "i-", "s,", "i-", "k", " ", "f",
    "a", "r", " ", "s", "i", "n", "y", "a", "l", " ", "k", "l", "a", "k", "s", "o", "n", " ",
    "c", "a", "m">>
PhraseBlank ==
  <<" ", " ", " ">>

Phrases ==
  { PhraseFren, PhraseScenario, PhraseAku, PhraseCalismiyor,
    PhraseSes, PhraseKlima, PhraseAmortisor,
    PhraseNoise, PhraseUpperFren, PhraseUpperIsik, PhraseMidWord, PhraseAllFren, PhraseFiveMotor, PhraseFourKlima,
    PhraseAllElektrik, PhraseFiveSuspansiyon, PhraseBlank }

Vins == {<<>>, VinKnown, VinLowerCase, VinBadLetter, VinShort}

RECURSIVE Join(_)
Join(ps) ==
  IF ps = <<>> THEN <<>>
  ELSE IF Len(ps) = 1 THEN ps[1]
  ELSE ps[1] \o <<" ">> \o Join(Tail(ps))

Descriptions == {Join(ps) : ps \in UNION {[1..n -> Phrases] : n \in 0..MaxPhrases}}

\* ------------------------------------- SpecClassify, SpecInterpret: Init

\* no request has been routed; no part request has been made
NoRouting == request = Null /\ handler = Null
NoPartRequests == pendingRequests = <<>> /\ now = 0 /\ created = <<>>

NoSellerData == [global_sellers |-> <<>>, entries |-> <<>>]

\* a direct call interpretPartFromText(description, vin); vin is not read
InitClassify ==
  /\ vin = VinKnown
  /\ description \in Descriptions
  /\ partId = <<>>
  /\ mockSellers = NoSellerData
  /\ pc = "request"
  /\ suggestedPart = Null
  /\ sellers = <<>>
  /\ response = Null
  /\ NoRouting
  /\ NoPartRequests

InitInterpret ==
  /\ vin \in Vins
  /\ description \in Descriptions
  /\ partId = <<>>
  /\ mockSellers = NoSellerData
  /\ pc = "request"
  /\ suggestedPart = Null
  /\ sellers = <<>>
  /\ response = Null
  /\ NoRouting
  /\ NoPartRequests

CallInterpretPartFromText ==
  /\ pc = "request"
  /\ suggestedPart' = interpretPartFromText(description, vin)
  /\ pc' = "returned"
  /\ UNCHANGED <<vin, description, partId, mockSellers, sellers, response>>
  /\ UNCHANGED <<routeVars, requestVars>>

\* POST /api/parts/interpret; suggestedPart is the handler's constant of that
\* name, assigned when the classifier is called
interpretPartFromDescription ==
  /\ pc = "request"
  /\ response' = InterpretResponse(vin, description)
  /\ suggestedPart' =
       IF InterpretRejection(vin, description) = Null
       THEN interpretPartFromText(description, vin)
       ELSE suggestedPart
  /\ pc' = "responded"
  /\ UNCHANGED <<vin, description, partId, mockSellers, sellers>>
  /\ UNCHANGED <<routeVars, requestVars>>

NextClassify == CallInterpretPartFromText

SpecClassify == InitClassify /\ [][NextClassify]_vars

NextInterpret == interpretPartFromDescription

SpecInterpret == InitInterpret /\ [][NextInterpret]_vars

\* ------------------------------------------------------- offer synthesizer

\* Math.random() returns d / RandomScale for a draw d in 0..RandomScale-1.
RandomScale == 10 * 100

\* The values Math.random() returns to one call, in call order, other than to
\* the comparator of the shuffle: a cycle that is read round and round.
Draw(tape, i) == tape[((i - 1) % Len(tape)) + 1]

\* mutant: a range of five counts, 2..6
NumSellers_UpToSix(d) == (d * 5) \div RandomScale + 2

\* Math.floor(Math.random() * 4) + 2
NumSellers(d) == (d * 4) \div RandomScale + 2

SubMotor == <<"m", "o", "t", "o", "r">>
SubFren == <<"f", "r", "e", "n">>
SubElektrik == <<"e", "l", "e", "k", "t", "r", "i", "k">>
SubSuspansiyon == <<"s", "u", "s", "p", "a", "n", "s", "i", "y", "o", "n">>
SubKlima == <<"k", "l", "i", "m", "a">>
SubGovde == <<"g", "o", "v", "d", "e">>
SubIcAksam == <<"i", "c", "-", "a", "k", "s", "a", "m">>

\* mutant: the test for "fren" moved ahead of the test for "motor"
BasePrice_FrenFirst(id) ==
  IF includes(id, SubFren) THEN 300
  ELSE IF includes(id, SubMotor) THEN 800
  ELSE IF includes(id, SubElektrik) THEN 200
  ELSE IF includes(id, SubSuspansiyon) THEN 400
  ELSE IF includes(id, SubKlima) THEN 250
  ELSE IF includes(id, SubGovde) THEN 600
  ELSE IF includes(id, SubIcAksam) THEN 150
  ELSE 100

\* the if / else-if chain on partId.includes(...)
BasePrice(id) ==
  IF includes(id, SubMotor) THEN 800
  ELSE IF includes(id, SubFren) THEN 300
  ELSE IF includes(id, SubElektrik) THEN 200
  ELSE IF includes(id, SubSuspansiyon) THEN 400
  ELSE IF includes(id, SubKlima) THEN 250
  ELSE IF includes(id, SubGovde) THEN 600
  ELSE IF includes(id, SubIcAksam) THEN 150
  ELSE 100

\* Math.round(x / y) for x >= 0, y > 0: halves go up
RoundDiv(x, y) == (2 * x + y) \div (2 * y)

\* mutant: a spread of 0.5 for 0.4, that is -25% .. +25%
VariedPrice_QuarterSpread(basePrice, d) ==
  RoundDiv(basePrice * (20 * RandomScale + 10 * d - 5 * RandomScale), 20 * RandomScale)

\* Math.round(basePrice * (1 + (Math.random() - 0.5) * 0.4))
VariedPrice(basePrice, d) ==
  RoundDiv(basePrice * (10 * RandomScale + 4 * d - 2 * RandomScale), 10 * RandomScale)

\* Math.floor(Math.random() * 25) + 1
Stock(d) == (d * 25) \div RandomScale + 1

\* insertion of x into a list sorted by price, after the entries of equal price
RECURSIVE InsertByPrice(_, _)
InsertByPrice(x, sorted) ==
  IF sorted = <<>> THEN <<x>>
  ELSE IF x.price < Head(sorted).price THEN <<x>> \o sorted
  ELSE <<Head(sorted)>> \o InsertByPrice(x, Tail(sorted))

RECURSIVE SortFrom(_, _, _)
SortFrom(list, i, sorted) ==
  IF i > Len(list) THEN sorted ELSE SortFrom(list, i + 1, InsertByPrice(list[i], sorted))

\* mutant: the list left in the order it was built
SortByPrice_Unsorted(list) == list

\* list.sort((a, b) => a.price - b.price): ascending by price, stable
SortByPrice(list) == SortFrom(list, 1, <<>>)

\* [...globalSellers].sort(() => 0.5 - Math.random()) is some permutation of
\* the pool, and the loop reads its first count entries only: any count
\* different pool positions, in any order
\* mutant: a pool position may be read in more than one turn
ShuffledLeading_WithRepeats(globalSellers, count) ==
  {[i \in 1..count |-> globalSellers[f[i]]] : f \in [1..count -> 1..Len(globalSellers)]}

ShuffledLeading(globalSellers, count) ==
  {[i \in 1..count |-> globalSellers[f[i]]] :
     f \in {g \in [1..count -> 1..Len(globalSellers)] :
              \A a, b \in 1..count : a # b => g[a] # g[b]}}

\* the record pushed in turn i of the loop, for seller = shuffledSellers[i]
Offer(seller, id, tape, i) ==
  [ name |-> seller.name,
    location |-> seller.location,
    price |-> VariedPrice(BasePrice(id), Draw(tape, 2 * i)),
    stock |-> Stock(Draw(tape, 2 * i + 1)),
    rating |-> seller.rating,
    phone |-> seller.phone,
    email |-> seller.email ]

\* the number of turns of the loop: Math.min(numSellers, shuffledSellers.length)
OfferCount(numSellers, poolSize) == Min(numSellers, poolSize)

\* the sellers the loop can read, for the draw of numSellers on tape
Selections(globalSellers, tape) ==
  ShuffledLeading(globalSellers, OfferCount(NumSellers(Draw(tape, 1)), Len(globalSellers)))

\* mutant: an empty pool still yields one offer, of an unnamed seller
generateSellersForPart_NeverEmpty(id, selected, tape) ==
  LET unnamed == [name |-> "", location |-> "", rating |-> 0, phone |-> "", email |-> ""]
      chosen == IF selected = <<>> THEN <<unnamed>> ELSE selected
      selectedSellers == [i \in 1..Len(chosen) |-> Offer(chosen[i], id, tape, i)]
  IN  SortByPrice(selectedSellers)

\* generateSellersForPart(partId, globalSellers), for the shuffle's leading
\* entries selected and the draws of tape
generateSellersForPart(id, selected, tape) ==
  LET selectedSellers == [i \in 1..Len(selected) |-> Offer(selected[i], id, tape, i)]
  IN  SortByPrice(selectedSellers)

\* ---------------------------------------------- sellers: the handler

DeliveryOptions == <<"1-2 gun", "2-3 gun", "3-5 gun", "1 hafta", "Ayni gun">>

\* weights 0.3, 0.3, 0.25, 0.1, 0.05, in units of 1 / RandomScale
DeliveryWeights == <<300, 300, 250, 100, 50>>

RECURSIVE Cumulative(_)
Cumulative(i) == IF i = 0 THEN 0 ELSE Cumulative(i - 1) + DeliveryWeights[i]

\* mutant: a bucket triggers only strictly below its cumulative weight
generateDeliveryTime_Strict(d) ==
  LET hits == {i \in 1..Len(DeliveryOptions) : d < Cumulative(i)}
  IN  IF hits = {} THEN DeliveryOptions[1]
      ELSE DeliveryOptions[CHOOSE i \in hits : \A j \in hits : i <= j]

\* for random = d / RandomScale
generateDeliveryTime(d) ==
  LET hits == {i \in 1..Len(DeliveryOptions) : d <= Cumulative(i)}
  IN  IF hits = {} THEN DeliveryOptions[1]
      ELSE DeliveryOptions[CHOOSE i \in hits : \A j \in hits : i <= j]

\* mutant: the test for "fren" comes first
generateWarranty_FrenFirst(id) ==
  IF includes(id, SubFren) THEN "1 yil garanti"
  ELSE IF includes(id, SubMotor) THEN "2 yil garanti"
  ELSE IF includes(id, SubElektrik) THEN "6 ay garanti"
  ELSE IF includes(id, SubSuspansiyon) THEN "1 yil garanti"
  ELSE IF includes(id, SubKlima) THEN "1 yil garanti"
  ELSE IF includes(id, SubGovde) THEN "6 ay garanti"
  ELSE "3 ay garanti"

generateWarranty(id) ==
  IF includes(id, SubMotor) THEN "2 yil garanti"
  ELSE IF includes(id, SubFren) THEN "1 yil garanti"
  ELSE IF includes(id, SubElektrik) THEN "6 ay garanti"
  ELSE IF includes(id, SubSuspansiyon) THEN "1 yil garanti"
  ELSE IF includes(id, SubKlima) THEN "1 yil garanti"
  ELSE IF includes(id, SubGovde) THEN "6 ay garanti"
  ELSE "3 ay garanti"

PaymentMethods == <<"Nakit", "Kredi Karti", "Havale">>

\* { ...seller, deliveryTime, warranty, paymentMethods, lastUpdated }
WithMetadata(seller, id, d) ==
  [f \in DOMAIN seller \cup {"deliveryTime", "warranty", "paymentMethods", "lastUpdated"} |->
     IF f = "deliveryTime" THEN generateDeliveryTime(d)
     ELSE IF f = "warranty" THEN generateWarranty(id)
     ELSE IF f = "paymentMethods" THEN PaymentMethods
     ELSE IF f = "lastUpdated" THEN "now"
     ELSE seller[f]]

RECURSIVE SumPrices(_)
SumPrices(list) == IF list = <<>> THEN 0 ELSE Head(list).price + SumPrices(Tail(list))

\* mutant: the price of the last seller listed
MinPrice_OfLast(list) == list[Len(list)].price

\* Math.min(...prices)
MinPrice(list) == CHOOSE p \in {list[i].price : i \in 1..Len(list)} :
                    \A i \in 1..Len(list) : p <= list[i].price

MaxPrice(list) == CHOOSE p \in {list[i].price : i \in 1..Len(list)} :
                    \A i \in 1..Len(list) : p >= list[i].price

\* globalSellers after generateSellersForPart has returned: the sort that
\* shuffles works on the copy [...globalSellers], and the loop only reads the
\* sellers it selected
PoolAfterGenerate(globalSellers, selected) == globalSellers

\* mutant: the entry after a map and a sort that work on the list itself
EntryAfterGet_InPlace(found, sellersWithMetadata) == sellersWithMetadata

\* mockSellers[partId] after getSellersForPart has answered 200: map returns
\* a new array of new objects ({...seller, ...}), and that array is the one
\* sorted
EntryAfterGet(found, sellersWithMetadata) == found

\* the response getSellersForPart sends for partId over the seller data store
GetSellersResponse(id, store, selected, tape) ==
  IF id = <<>>
  THEN [status |-> 400, error |-> "Missing part ID"]
  ELSE
    LET predefined == id \in DOMAIN store.entries
        found ==
          IF predefined THEN store.entries[id]
          ELSE generateSellersForPart(id, selected, tape)
        \* the draws generateSellersForPart consumed come first on the tape
        used == IF predefined THEN 0 ELSE 1 + 2 * Len(found)
    IN  IF Len(found) = 0
        THEN [status |-> 404, error |-> "No sellers found"]
        ELSE
          LET sellersWithMetadata ==
                SortByPrice([i \in 1..Len(found) |->
                               WithMetadata(found[i], id, Draw(tape, used + i))])
          IN  [ status |-> 200,
                success |-> TRUE,
                partId |-> id,
                sellers |-> sellersWithMetadata,
                count |-> Len(sellersWithMetadata),
                priceRange |->
                  [ min |-> MinPrice(sellersWithMetadata),
                    max |-> MaxPrice(sellersWithMetadata),
                    average |-> RoundDiv(SumPrices(sellersWithMetadata),
                                         Len(sellersWithMetadata)) ] ]

\* mockSellers after getSellersForPart has sent the response resp
StoreAfterGet(id, store, selected, resp) ==
  IF id = <<>> THEN store
  ELSE IF id \in DOMAIN store.entries
  THEN IF resp.status # 200 THEN store
       ELSE [store EXCEPT !.entries[id] = EntryAfterGet(@, resp.sellers)]
  ELSE [store EXCEPT !.global_sellers = PoolAfterGenerate(@, selected)]

\* ------------------------------------------------------- seller requests

PartMotor ==
  <<"p", "a", "r", "t", "-", "m", "o", "t", "o", "r", "-", "0", "3", "7">>

PartFren ==
  <<"p", "a", "r", "t", "-", "f", "r", "e", "n", "-", "0", "0", "1">>

PartElektrik ==
  <<"p", "a", "r", "t", "-", "e", "l", "e", "k", "t", "r", "i", "k", "-", "0", "0", "1">>

PartSuspansiyon ==
  <<"p", "a", "r", "t", "-", "s", "u", "s", "p", "a", "n", "s", "i", "y", "o", "n", "-", "0",
    "0", "1">>

PartKlima ==
  <<"p", "a", "r", "t", "-", "k", "l", "i", "m", "a", "-", "0", "0", "4">>

PartGovde ==
  <<"p", "a", "r", "t", "-", "g", "o", "v", "d", "e", "-", "0", "0", "1">>

PartIcAksam ==
  <<"p", "a", "r", "t", "-", "i", "c", "-", "a", "k", "s", "a", "m", "-", "0", "0", "1">>

PartGeneral ==
  <<"p", "a", "r", "t", "-", "g", "e", "n", "e", "r", "a", "l", "-", "0", "0", "1">>

PartFrenMotor ==
  <<"p", "a", "r", "t", "-", "f", "r", "e", "n", "-", "m", "o", "t", "o", "r", "-", "0", "0", "1">>

PartKlimaElektrik ==
  <<"p", "a", "r", "t", "-", "k", "l", "i", "m", "a", "-", "e", "l", "e", "k", "t", "r", "i",
    "k", "-", "0", "0", "1">>

PartIds ==
  { PartMotor, PartFren, PartElektrik, PartSuspansiyon,
    PartKlima, PartGovde, PartIcAksam, PartGeneral,
    PartFrenMotor, PartKlimaElektrik }

\* seller profiles of mockSellers.global_sellers (rating in tenths)
GlobalSellerProfiles ==
  <<
     [ name |-> "ParcaDukkani", location |-> "Ankara", rating |-> 46,
       phone |-> "+90-501", email |-> "seller1@example.com" ],
     [ name |-> "OtoParca Merkezi", location |-> "Istanbul", rating |-> 48,
       phone |-> "+90-502", email |-> "seller2@example.com" ],
     [ name |-> "Yedek Parca Dunyasi", location |-> "Izmir", rating |-> 43,
       phone |-> "+90-503", email |-> "seller3@example.com" ],
     [ name |-> "Anadolu Oto", location |-> "Bursa", rating |-> 45,
       phone |-> "+90-504", email |-> "seller4@example.com" ],
     [ name |-> "Ege Yedek Parca", location |-> "Izmir", rating |-> 41,
       phone |-> "+90-505", email |-> "seller5@example.com" ],
     [ name |-> "Baskent Oto", location |-> "Ankara", rating |-> 47,
       phone |-> "+90-506", email |-> "seller6@example.com" ],
     [ name |-> "Marmara Parca", location |-> "Kocaeli", rating |-> 39,
       phone |-> "+90-507", email |-> "seller7@example.com" ],
     [ name |-> "Akdeniz Oto", location |-> "Antalya", rating |-> 44,
       phone |-> "+90-508", email |-> "seller8@example.com" ]
  >>

GlobalSellers(p) == SubSeq(GlobalSellerProfiles, 1, Min(p, Len(GlobalSellerProfiles)))

\* the entry of mockSellers for part-fren-001, as the README's example of
\* GET /api/sellers/part-fren-001 lists it, in the data's own order
PredefinedSellers ==
  << [name |-> "Baskent Oto", location |-> "Ankara", price |-> 365, stock |-> 3, rating |-> 47],
     [name |-> "ParcaDukkani", location |-> "Ankara", price |-> 340, stock |-> 5, rating |-> 46],
     [name |-> "Anadolu Oto", location |-> "Bursa", price |-> 357, stock |-> 12, rating |-> 45],
     [name |-> "Ege Yedek Parca", location |-> "Izmir", price |-> 350, stock |-> 1, rating |-> 41] >>

\* the entries of mockSellers keyed by a part id: the list above, and an
\* empty list
PredefinedEntries == (PartFren :> PredefinedSellers) @@ (PartIcAksam :> <<>>)

\* the seller data, for every size of the pool
SellerStores ==
  {[global_sellers |-> GlobalSellers(p), entries |-> PredefinedEntries] : p \in 0..MaxPool}

\* the tapes of draws the requests are served with (for these draws the
\* doubles of the source round as the integers here do)
RandomTapes ==
  { <<0>>,
    <<999, 999, 0, 500, 700>>,
    <<300, 900, 100>>,
    <<600, 100, 900, 400, 200, 650, 50>> }

\* the draws generateDeliveryTime is called with on its own: the ends of the
\* range, and each cumulative weight with its two neighbours
DeliveryDraws ==
  {0, 1, 299, 300, 301, 599, 600, 601, 849, 850, 851, 949, 950, 951, 998, 999}


\* ----------------------------------------------------------- the routers

\* A request path under a mount point has at most this many segments.
MaxSegments == 2

SegSearch == <<"s", "e", "a", "r", "c", "h">>
SegCategories == <<"c", "a", "t", "e", "g", "o", "r", "i", "e", "s">>
SegInterpret == <<"i", "n", "t", "e", "r", "p", "r", "e", "t">>
SegFren == <<"F", "r", "e", "n">>

\* a segment of a route's path: a named parameter or a literal
Param(name) == [param |-> name]
Literal(segment) == [literal |-> segment]

\* the routes of the router mounted at /api/vehicle, in the order of their
\* registration
vehicleRoutes ==
  << [method |-> "GET", path |-> <<Param("vin")>>, handler |-> "getVehicleByVIN"],
     [method |-> "GET", path |-> <<>>, handler |-> "getAllVehicles"],
     [method |-> "GET", path |-> <<Literal(SegSearch)>>, handler |-> "searchVehicles"] >>

\* the routes of the router mounted at /api/parts, in the order of their
\* registration
partRoutes ==
  << [method |-> "GET", path |-> <<Param("vin"), Param("category")>>,
      handler |-> "getPartsByCategory"],
     [method |-> "POST", path |-> <<Literal(SegInterpret)>>,
      handler |-> "interpretPartFromDescription"],
     [method |-> "GET", path |-> <<Param("vin"), Literal(SegCategories)>>,
      handler |-> "getVehicleCategories"],
     [method |-> "GET", path |-> <<Literal(SegSearch)>>, handler |-> "searchParts"] >>

\* app.use('/api/vehicle', vehicleRoutes); app.use('/api/parts', partRoutes)
Routers == [vehicle |-> vehicleRoutes, parts |-> partRoutes]

\* a route matches a request of its method whose path has as many segments as
\* its own, each literal equal to the request's segment but for case
RouteMatches(route, req) ==
  /\ route.method = req.method
  /\ Len(route.path) = Len(req.path)
  /\ \A k \in 1..Len(route.path) :
       "literal" \in DOMAIN route.path[k] =>
         toLowerCase(route.path[k].literal) = toLowerCase(req.path[k])

\* the index of the first route, in the order of registration, that matches;
\* 0 when none does
FirstMatch(routes, req) ==
  LET matching == {k \in 1..Len(routes) : RouteMatches(routes[k], req)}
  IN  IF matching = {} THEN 0 ELSE CHOOSE k \in matching : \A j \in matching : k <= j

\* the handler the request reaches: that of the first matching route of the
\* router of its mount point, else app.use('/api/*')
RoutedHandler(req) ==
  LET routes == Routers[req.mount]
      k == FirstMatch(routes, req)
  IN  IF k = 0 THEN "apiNotFound" ELSE routes[k].handler

\* req.params: the segments that stand at the parameters of the matched route
RoutedParams(req) ==
  LET routes == Routers[req.mount]
      k == FirstMatch(routes, req)
  IN  IF k = 0 THEN <<>>
      ELSE [j \in {i \in 1..Len(routes[k].path) : "param" \in DOMAIN routes[k].path[i]} |->
              [name |-> routes[k].path[j].param, value |-> req.path[j]]]

\* req.params[name] (a route names each parameter once)
ParamOf(params, name) ==
  LET at == {j \in DOMAIN params : params[j].name = name}
  IN  params[CHOOSE j \in at : TRUE].value

\* ---------------------------------------------- vehicle and part handlers

\* the parts of category "Fren" the README's example lists
mockParts ==
  [ Fren |->
      << [name |-> <<"F", "r", "e", "n", " ", "B", "a", "l", "a", "t", "a", "s", "i-", " ", "O:", "n">>,
          id |-> <<"p", "a", "r", "t", "-", "f", "r", "e", "n", "-", "0", "0", "1">>],
         [name |-> <<"F", "r", "e", "n", " ", "B", "a", "l", "a", "t", "a", "s", "i-", " ", "A", "r", "k", "a">>,
          id |-> <<"p", "a", "r", "t", "-", "f", "r", "e", "n", "-", "0", "0", "2">>],
         [name |-> <<"F", "r", "e", "n", " ", "D", "i", "s", "k", "i", " ", "O:", "n">>,
          id |-> <<"p", "a", "r", "t", "-", "f", "r", "e", "n", "-", "0", "0", "3">>] >> ]

\* Object.keys(mockParts), as the category names requests are made with
PartCategories == <<SegFren>>

\* mockParts[category]: Null when there is no such category
PartsOf(category) == IF category = SegFren THEN mockParts.Fren ELSE Null

FindVehicle(v) ==
  IF Vehicles(v) = {} THEN Null
  ELSE mockVehicles[CHOOSE k \in Vehicles(v) : \A j \in Vehicles(v) : k <= j]

VehicleSummary(vehicle) ==
  [vin |-> vehicle.vin, make |-> vehicle.make, model |-> vehicle.model, year |-> vehicle.year]

\* array.filter(keep), keep a function of the entry
RECURSIVE Filter(_, _)
Filter(list, keep) ==
  IF list = <<>> THEN <<>>
  ELSE IF keep[Head(list)] THEN <<Head(list)>> \o Filter(Tail(list), keep)
  ELSE Filter(Tail(list), keep)

Contains(list, x) == \E k \in 1..Len(list) : list[k] = x

Digits == <<"0", "1", "2", "3", "4", "5", "6", "7", "8", "9">>

DigitValue(c) == (CHOOSE k \in 1..10 : Digits[k] = c) - 1

\* parseInt(s) for a string of digits followed by anything: Null stands for NaN
RECURSIVE ParseDigits(_, _)
ParseDigits(s, acc) ==
  IF s = <<>> \/ ~Contains(Digits, Head(s)) THEN acc
  ELSE ParseDigits(Tail(s), 10 * acc + DigitValue(Head(s)))

parseInt(s) == IF s = <<>> \/ ~Contains(Digits, Head(s)) THEN Null ELSE ParseDigits(s, 0)

getVehicleByVIN(params) ==
  LET v == ParamOf(params, "vin")
      vehicle == FindVehicle(v)
  IN  IF ~isValidVIN(v) THEN [status |-> 400, error |-> "Invalid VIN format"]
      ELSE IF vehicle = Null THEN [status |-> 404, error |-> "Vehicle not found"]
      ELSE [status |-> 200, success |-> TRUE, data |-> vehicle]

getAllVehicles ==
  [status |-> 200, success |-> TRUE, data |-> mockVehicles, count |-> Len(mockVehicles)]

searchVehicles(query) ==
  LET byMake ==
        IF query.make = <<>> THEN mockVehicles
        ELSE Filter(mockVehicles,
                    [v \in {mockVehicles[k] : k \in 1..Len(mockVehicles)} |->
                       includes(toLowerCase(v.make), toLowerCase(query.make))])
      byModel ==
        IF query.model = <<>> THEN byMake
        ELSE Filter(byMake,
                    [v \in {byMake[k] : k \in 1..Len(byMake)} |->
                       includes(toLowerCase(v.model), toLowerCase(query.model))])
      yearNum == parseInt(query.year)
      filteredVehicles ==
        IF query.year = <<>> \/ yearNum = Null THEN byModel
        ELSE Filter(byModel, [v \in {byModel[k] : k \in 1..Len(byModel)} |-> v.year = yearNum])
  IN  [ status |-> 200,
        success |-> TRUE,
        data |-> filteredVehicles,
        count |-> Len(filteredVehicles),
        filters |-> [make |-> query.make, model |-> query.model, year |-> query.year] ]

getPartsByCategory(params) ==
  LET v == ParamOf(params, "vin")
      category == ParamOf(params, "category")
      vehicle == FindVehicle(v)
      categoryParts == PartsOf(category)
  IN  IF ~isValidVIN(v) THEN [status |-> 400, error |-> "Invalid VIN format"]
      ELSE IF vehicle = Null THEN [status |-> 404, error |-> "Vehicle not found"]
      ELSE IF ~Contains(vehicle.categories, category)
      THEN [ status |-> 404, error |-> "Category not available",
             availableCategories |-> vehicle.categories ]
      ELSE IF categoryParts = Null
      THEN [ status |-> 404, error |-> "Category not found",
             availableCategories |-> PartCategories ]
      ELSE [ status |-> 200,
             success |-> TRUE,
             vehicle |-> VehicleSummary(vehicle),
             category |-> category,
             parts |-> categoryParts,
             count |-> Len(categoryParts) ]

getVehicleCategories(params) ==
  LET v == ParamOf(params, "vin")
      vehicle == FindVehicle(v)
  IN  IF ~isValidVIN(v) THEN [status |-> 400, error |-> "Invalid VIN format"]
      ELSE IF vehicle = Null THEN [status |-> 404, error |-> "Vehicle not found"]
      ELSE
        LET categoriesWithCounts ==
              [k \in 1..Len(vehicle.categories) |->
                 [ name |-> vehicle.categories[k],
                   partCount |-> IF PartsOf(vehicle.categories[k]) # Null
                                 THEN Len(PartsOf(vehicle.categories[k])) ELSE 0,
                   available |-> PartsOf(vehicle.categories[k]) # Null ]]
        IN  [ status |-> 200,
              success |-> TRUE,
              vehicle |-> VehicleSummary(vehicle),
              categories |-> categoriesWithCounts,
              totalCategories |-> Len(categoriesWithCounts) ]

\* the parts of category cat that match, each with its category
MatchingParts(cat, searchTerm) ==
  IF PartsOf(cat) = Null THEN <<>>
  ELSE
    LET parts == PartsOf(cat)
        matchingParts ==
          Filter(parts,
                 [part \in {parts[k] : k \in 1..Len(parts)} |->
                    \/ includes(toLowerCase(part.name), searchTerm)
                    \/ includes(toLowerCase(part.id), searchTerm)])
    IN  [k \in 1..Len(matchingParts) |->
           [name |-> matchingParts[k].name, id |-> matchingParts[k].id, category |-> cat]]

RECURSIVE SearchIn(_, _)
SearchIn(categoriesToSearch, searchTerm) ==
  IF categoriesToSearch = <<>> THEN <<>>
  ELSE MatchingParts(Head(categoriesToSearch), searchTerm)
         \o SearchIn(Tail(categoriesToSearch), searchTerm)

searchParts(query) ==
  IF query.query = <<>> \/ Len(trim(query.query)) < 2
  THEN [status |-> 400, error |-> "Invalid search query"]
  ELSE
    LET searchTerm == trim(toLowerCase(query.query))
        categoriesToSearch ==
          IF query.category # <<>> THEN <<query.category>> ELSE PartCategories
        results == SearchIn(categoriesToSearch, searchTerm)
    IN  [ status |-> 200,
          success |-> TRUE,
          query |-> query.query,
          category |-> IF query.category # <<>> THEN query.category ELSE <<"a", "l", "l">>,
          results |-> results,
          count |-> Len(results) ]

\* app.use('/api/*'): no route of the routers matched
apiNotFound == [status |-> 404, error |-> "Endpoint not found"]

\* the response of the handler the request reached
HandlerResponse(name, req) ==
  CASE name = "getVehicleByVIN" -> getVehicleByVIN(RoutedParams(req))
    [] name = "getAllVehicles" -> getAllVehicles
    [] name = "searchVehicles" -> searchVehicles(req.query)
    [] name = "getPartsByCategory" -> getPartsByCategory(RoutedParams(req))
    [] name = "interpretPartFromDescription" ->
         InterpretResponse(req.body.vin, req.body.description)
    [] name = "getVehicleCategories" -> getVehicleCategories(RoutedParams(req))
    [] name = "searchParts" -> searchParts(req.query)
    [] OTHER -> apiNotFound

\* ------------------------------------------------- SpecRoutes: one request

Segments == {VinKnown, VinBadLetter, SegSearch, SegCategories, SegInterpret, SegFren}

Paths == UNION {[1..n -> Segments] : n \in 0..MaxSegments}

NoQuery == [make |-> <<>>, model |-> <<>>, year |-> <<>>, query |-> <<>>, category |-> <<>>]

\* the query strings of the README's two search examples, and one of no vehicle
Queries ==
  { NoQuery,
    [NoQuery EXCEPT !.make = <<"M", "e", "r", "c", "e", "d", "e", "s">>,
                    !.model = <<"A", "1", "8", "0">>, !.year = <<"2", "0", "2", "0">>],
    [NoQuery EXCEPT !.make = <<"b", "m", "w">>],
    [NoQuery EXCEPT !.query = <<"f", "r", "e", "n">>, !.category = SegFren] }

Requests ==
  [ method : {"GET", "POST"},
    mount : {"vehicle", "parts"},
    path : Paths,
    query : Queries,
    body : {[vin |-> VinKnown, description |-> PhraseScenario]} ]

InitRoutes ==
  /\ request \in Requests
  /\ handler = Null
  /\ vin = <<>>
  /\ description = <<>>
  /\ partId = <<>>
  /\ mockSellers = NoSellerData
  /\ pc = "request"
  /\ suggestedPart = Null
  /\ sellers = <<>>
  /\ response = Null
  /\ NoPartRequests

\* the application passes the request to the first route that matches
RouteRequest ==
  /\ pc = "request"
  /\ handler' = RoutedHandler(request)
  /\ pc' = "routed"
  /\ UNCHANGED <<vin, description, partId, mockSellers, suggestedPart, sellers, response,
                 request, requestVars>>

\* the handler answers
RunHandler ==
  /\ pc = "routed"
  /\ response' = HandlerResponse(handler, request)
  /\ pc' = "responded"
  /\ UNCHANGED <<vin, description, partId, mockSellers, suggestedPart, sellers,
                 routeVars, requestVars>>

NextRoutes == RouteRequest \/ RunHandler

SpecRoutes == InitRoutes /\ [][NextRoutes]_vars

\* ------------------------------------------------ SpecSellers: one request

InitSellers ==
  /\ vin = <<>>
  /\ description = <<>>
  /\ partId \in PartIds
  /\ mockSellers \in SellerStores
  /\ pc = "request"
  /\ suggestedPart = Null
  /\ sellers = <<>>
  /\ response = Null
  /\ NoRouting
  /\ NoPartRequests

\* a direct call generateSellersForPart(partId, mockSellers.global_sellers)
CallGenerateSellersForPart ==
  /\ pc = "request"
  /\ \E tape \in RandomTapes :
       \E selected \in Selections(mockSellers.global_sellers, tape) :
         /\ sellers' = generateSellersForPart(partId, selected, tape)
         /\ mockSellers' =
              [mockSellers EXCEPT !.global_sellers = PoolAfterGenerate(@, selected)]
  /\ pc' = "returned"
  /\ UNCHANGED <<vin, description, partId, suggestedPart, response>>
  /\ UNCHANGED <<routeVars, requestVars>>

\* GET /api/sellers/:partId
getSellersForPart ==
  /\ pc = "request"
  /\ \E tape \in RandomTapes :
       \E selected \in Selections(mockSellers.global_sellers, tape) :
         /\ response' = GetSellersResponse(partId, mockSellers, selected, tape)
         /\ mockSellers' = StoreAfterGet(partId, mockSellers, selected, response')
  /\ pc' = "responded"
  /\ UNCHANGED <<vin, description, partId, suggestedPart, sellers>>
  /\ UNCHANGED <<routeVars, requestVars>>

\* a direct call generateDeliveryTime(), its Math.random() returning random
CallGenerateDeliveryTime ==
  /\ pc = "request"
  /\ \E d \in DeliveryDraws :
       response' = [random |-> d, deliveryTime |-> generateDeliveryTime(d)]
  /\ pc' = "delivery"
  /\ UNCHANGED <<vin, description, partId, mockSellers, suggestedPart, sellers>>
  /\ UNCHANGED <<routeVars, requestVars>>

\* the module stays loaded: the next call, for any part id, finds the seller
\* data as the calls before it left them
NextCall ==
  /\ pc \in {"returned", "responded", "delivery"}
  /\ partId' \in PartIds
  /\ pc' = "request"
  /\ sellers' = <<>>
  /\ response' = Null
  /\ UNCHANGED <<vin, description, mockSellers, suggestedPart>>
  /\ UNCHANGED <<routeVars, requestVars>>

NextSellers ==
  CallGenerateSellersForPart \/ getSellersForPart \/ CallGenerateDeliveryTime \/ NextCall

SpecSellers == InitSellers /\ [][NextSellers]_vars

\* ---------------------------------------------------------- part requests

\* createPartRequest stores at most this many requests.
MaxRequests == 2

\* The clock is read at a whole number of long steps, and a millisecond later.
MillisOffsets == {0, 1}

\* The clock makes at most this many long steps.
MaxLongSteps == 2

\* a long step of the clock: 31 minutes, in milliseconds
LongStep == 31 * 60 * 1000

\* Math.floor(Math.random() * 10000), for Math.random() = d / RandomScale
RequestRandom(d) == (d * 10000) \div RandomScale

\* `req-${timestamp}-${random}`: the two numbers in decimal, set apart by "-",
\* so that two ids are equal exactly when both numbers are
RequestIdOf(timestamp, random) == <<"req", timestamp, random>>

\* generateRequestId(), for the clock and the draw of the call
generateRequestId(clock, d) == RequestIdOf(clock, RequestRandom(d))

Whitespace == {" "}

\* /^[^\s@]+@[^\s@]+\.[^\s@]+$/.test(userEmail)
emailRegexTest(userEmail) ==
  /\ \A k \in 1..Len(userEmail) : userEmail[k] \notin Whitespace
  /\ \E at \in 2..Len(userEmail) :
       /\ userEmail[at] = "@"
       /\ \A k \in 1..Len(userEmail) : userEmail[k] = "@" => k = at
       /\ \E dot \in (at + 2)..(Len(userEmail) - 1) : userEmail[dot] = "."

getEstimatedResponseTime(urgency) ==
  CASE urgency = "urgent" -> "2-4 saat"
    [] urgency = "high" -> "4-8 saat"
    [] urgency = "normal" -> "8-24 saat"
    [] urgency = "low" -> "1-3 gun"
    [] OTHER -> "8-24 saat"

\* Math.floor(Math.random() * 8) + 3
NotificationCount(d) == (d * 8) \div RandomScale + 3

\* Math.floor(Math.random() * 3) + 1
ContactAttempts(d) == (d * 3) \div RandomScale + 1

\* Math.floor(Math.random() * 5) + 1
StatusOfferCount(d) == (d * 5) \div RandomScale + 1

\* the response createPartRequest sends before it stores anything, Null when
\* the body passes both checks
CreateRejection(body) ==
  IF body.vin = <<>> \/ body.partId = <<>> \/ body.userEmail = <<>>
  THEN [status |-> 400, error |-> "Missing required fields"]
  ELSE IF ~emailRegexTest(body.userEmail)
  THEN [status |-> 400, error |-> "Invalid email format"]
  ELSE Null

\* the request object of lines 113-124; description and urgency are absent
\* from the bodies here, and offerCount, absent until set, is 0
NewRequest(requestId, body, clock) ==
  [ requestId |-> requestId,
    vin |-> body.vin,
    partId |-> body.partId,
    userEmail |-> body.userEmail,
    description |-> <<>>,
    urgency |-> "normal",
    status |-> "pending",
    createdAt |-> clock,
    estimatedResponse |-> getEstimatedResponseTime("absent"),
    contactAttempts |-> 0,
    offerCount |-> 0 ]

\* pendingRequests.set(requestId, request)
MapSet(map, key, value) ==
  [k \in DOMAIN map \cup {key} |-> IF k = key THEN value ELSE map[k]]

\* mutant: a pending request of more than 60 minutes receives its offers at
\* once
UpdatedStatus_PendingToOffers(req, clock, d) ==
  LET minutesElapsedOver30 == clock - req.createdAt > 30 * 60 * 1000
      minutesElapsedOver60 == clock - req.createdAt > 60 * 60 * 1000
  IN  IF minutesElapsedOver60 /\ req.status # "offers_received"
      THEN [req EXCEPT !.status = "offers_received", !.contactAttempts = ContactAttempts(d),
                       !.offerCount = StatusOfferCount(d)]
      ELSE IF minutesElapsedOver30 /\ req.status = "pending"
      THEN [req EXCEPT !.status = "in_progress", !.contactAttempts = ContactAttempts(d)]
      ELSE req

\* UpdatedStatus without its else-if branch
UpdatedStatus_StaysInProgress(req, clock, d) ==
  LET minutesElapsedOver30 == clock - req.createdAt > 30 * 60 * 1000
  IN  IF minutesElapsedOver30 /\ req.status = "pending"
      THEN [req EXCEPT !.status = "in_progress", !.contactAttempts = ContactAttempts(d)]
      ELSE req

\* the request object after getRequestStatus has updated it, for the clock
\* and the draw of the call
UpdatedStatus(req, clock, d) ==
  LET minutesElapsedOver30 == clock - req.createdAt > 30 * 60 * 1000
      minutesElapsedOver60 == clock - req.createdAt > 60 * 60 * 1000
  IN  IF minutesElapsedOver30 /\ req.status = "pending"
      THEN [req EXCEPT !.status = "in_progress", !.contactAttempts = ContactAttempts(d)]
      ELSE IF minutesElapsedOver60 /\ req.status = "in_progress"
      THEN [req EXCEPT !.status = "offers_received", !.offerCount = StatusOfferCount(d)]
      ELSE req

EmailValid == <<"t", "e", "s", "t", "@", "e", "x", "a", "m", "p", "l", "e", ".", "c", "o", "m">>
EmailNoDot == <<"t", "e", "s", "t", "@", "e", "x", "a", "m", "p", "l", "e">>

\* the bodies of POST /api/sellers/request
RequestBodies ==
  [ vin : {<<>>, VinKnown},
    partId : {<<>>, PartFren},
    userEmail : {<<>>, EmailValid, EmailNoDot} ]

\* the draws of one createPartRequest call: of generateRequestId, and of
\* simulateSellerNotification
RequestTapes == {<<0, 0>>, <<500, 999>>}

\* the draw of one getRequestStatus call
StatusDraws == {0, 999}

\* a requestId of no request
UnknownRequestId == RequestIdOf(0, 1)

\* ------------------------------------------ SpecRequests: the request store

InitRequests ==
  /\ pendingRequests = <<>>
  /\ now = 0
  /\ created = <<>>
  /\ response = Null
  /\ pc = "serving"
  /\ vin = <<>>
  /\ description = <<>>
  /\ partId = <<>>
  /\ mockSellers = NoSellerData
  /\ suggestedPart = Null
  /\ sellers = <<>>
  /\ NoRouting

\* time passes: a millisecond, or a long step
Tick ==
  /\ \/ /\ (now % LongStep) + 1 \in MillisOffsets
        /\ now' = now + 1
     \/ /\ now \div LongStep < MaxLongSteps
        /\ now' = now + LongStep
  /\ UNCHANGED <<vin, description, partId, mockSellers, pc, suggestedPart, sellers, response,
                 routeVars, pendingRequests, created>>

\* POST /api/sellers/request, from line 90 on; simulateSellerNotification,
\* which the handler awaits between storing and answering, reads its draw only
createPartRequest ==
  /\ Len(created) < MaxRequests
  /\ \E body \in RequestBodies, tape \in RequestTapes :
       IF CreateRejection(body) # Null
       THEN /\ response' = CreateRejection(body)
            /\ UNCHANGED <<pendingRequests, created>>
       ELSE LET requestId == generateRequestId(now, Draw(tape, 1))
            IN  /\ pendingRequests' =
                     MapSet(pendingRequests, requestId, NewRequest(requestId, body, now))
                /\ created' = Append(created, requestId)
                /\ response' =
                     [ status |-> 201,
                       success |-> TRUE,
                       requestId |-> requestId,
                       requestStatus |-> "pending",
                       estimatedResponse |-> getEstimatedResponseTime("absent"),
                       notificationsSent |-> NotificationCount(Draw(tape, 2)) ]
  /\ UNCHANGED <<vin, description, partId, mockSellers, pc, suggestedPart, sellers,
                 routeVars, now>>

\* GET /api/sellers/request/:requestId, for one requestId
getRequestStatusOf(requestId) ==
  /\ \E d \in StatusDraws :
       IF requestId \notin DOMAIN pendingRequests
       THEN /\ response' = [status |-> 404, error |-> "Request not found"]
            /\ UNCHANGED pendingRequests
       ELSE LET updated == UpdatedStatus(pendingRequests[requestId], now, d)
            IN  /\ pendingRequests' = [pendingRequests EXCEPT ![requestId] = updated]
                /\ response' = [status |-> 200, success |-> TRUE, data |-> updated]
  /\ UNCHANGED <<vin, description, partId, mockSellers, pc, suggestedPart, sellers,
                 routeVars, now, created>>

\* GET /api/sellers/request/:requestId
getRequestStatus ==
  \E requestId \in DOMAIN pendingRequests \cup {UnknownRequestId} :
    getRequestStatusOf(requestId)

NextRequests == Tick \/ createPartRequest \/ getRequestStatus

SpecRequests == InitRequests /\ [][NextRequests]_vars

\* the values the clock takes
ClockValues == {k * LongStep + m : k \in 0..MaxLongSteps, m \in MillisOffsets}

\* the ids generateRequestId can return
PossibleRequestIds ==
  {generateRequestId(clock, Draw(tape, 1)) : clock \in ClockValues, tape \in RequestTapes}

\* a client that keeps polling GET /api/sellers/request/:requestId: a call
\* that would change what is stored or answered is not put off forever
SpecRequestsLive ==
  SpecRequests /\ \A requestId \in PossibleRequestIds : WF_vars(getRequestStatusOf(requestId))


\* ================================================================ claims

\* the categories with at least one keyword in text, as positions of partMappings
MatchingCategories(text) ==
  {i \in 1..Len(partMappings) : CountKeywordMatches(text, partMappings[i].keywords) > 0}

\* the keywords (of any category) that occur in text
KeywordsIn(text) ==
  {kw \in UNION {{m.keywords[k] : k \in 1..Len(m.keywords)} :
                   m \in {partMappings[i] : i \in 1..Len(partMappings)}} : includes(text, kw)}

DensityOf(text, i) ==
  DensityConfidence(CountKeywordMatches(text, partMappings[i].keywords),
                    Len(partMappings[i].keywords))

AdjustedOf(text, i) == AdjustedConfidence(partMappings[i].parts[1], DensityOf(text, i))

\* ---- C1: the scenario text yields category "fren", part id
\* "part-fren-001", at least 3 matched keywords and a confidence above 0.5.
C1_ScenarioAsStated ==
  (pc = "returned" /\ description = PhraseScenario) =>
    /\ suggestedPart.category = "fren"
    /\ suggestedPart.id = "part-fren-001"
    /\ suggestedPart.matchedKeywords >= 3
    /\ suggestedPart.confidence > Percent(50)

\* ---- C2: for the known VIN and the scenario text, POST /api/parts/interpret
\* answers with part "part-fren-002" ("Fren Balatasi Arka"), confidence 0.87,
\* 3 detected keywords, category "fren", level "Yuksek" and the
\* high-confidence recommendation, as the README's example shows.
C2_ReadmeExample ==
  (pc = "responded" /\ vin = VinKnown /\ description = PhraseScenario) =>
    /\ response.status = 200
    /\ response.suggestedPart.id = "part-fren-002"
    /\ response.suggestedPart.name = "Fren Balatasi Arka"
    /\ response.suggestedPart.confidence = Percent(87)
    /\ response.analysis.detectedKeywords = 3
    /\ response.analysis.category = "fren"
    /\ response.analysis.confidenceLevel = "Yuksek"
    /\ \E k \in 1..Len(response.recommendations) : response.recommendations[k] = RecHighConfidence

\* ---- C3: a text whose lower-cased form contains no keyword of any category
\* yields exactly the fallback (part-general-001, "Genel Kontrol Gerekli",
\* category general, confidence 0.3, 0 matched keywords); and every text
\* yields a result.
C3_FallbackWhenNoKeyword ==
  (pc = "returned") =>
    /\ suggestedPart # Null
    /\ DOMAIN suggestedPart = {"name", "id", "confidence", "category", "matchedKeywords"}
    /\ (KeywordsIn(toLowerCase(description)) = {}) =>
         suggestedPart = [ name |-> "Genel Kontrol Gerekli",
                           id |-> "part-general-001",
                           confidence |-> Percent(30),
                           category |-> "general",
                           matchedKeywords |-> 0 ]

C3_Witness ==
  /\ pc = "returned"
  /\ description = PhraseUpperIsik \o <<" ">> \o PhraseNoise
  /\ KeywordsIn(toLowerCase(description)) = {}
  /\ suggestedPart.id = "part-general-001"

\* ---- C4: when two or more categories reach the same adjusted confidence and
\* that value is the maximum, the result is the one that comes first in the
\* order fren, motor, elektrik, suspansiyon, klima.
CategoryOrder == <<"fren", "motor", "elektrik", "suspansiyon", "klima">>

TopCategories(text) ==
  {i \in MatchingCategories(text) :
     \A j \in MatchingCategories(text) : AdjustedOf(text, j) <= AdjustedOf(text, i)}

C4_TieKeepsEarlierCategory ==
  (pc = "returned") =>
    LET top == TopCategories(toLowerCase(description))
    IN  Cardinality(top) >= 2 =>
          /\ \A i \in top : partMappings[i].category = CategoryOrder[i]
          /\ suggestedPart.category = CategoryOrder[CHOOSE i \in top : \A j \in top : i <= j]

C4_Witness ==
  /\ pc = "returned"
  /\ TopCategories(toLowerCase(description)) = {1, 3}
  /\ suggestedPart.category = "fren"

\* ---- C5: every matching category's density confidence lies in [0.2, 0.95],
\* and the confidence of a result other than the fallback is at most the base
\* weight of the returned part.
C5_ConfidenceBounds ==
  (pc = "returned") =>
    LET text == toLowerCase(description)
    IN  /\ \A i \in MatchingCategories(text) :
             /\ Percent(20) <= DensityOf(text, i)
             /\ DensityOf(text, i) <= Percent(95)
        /\ suggestedPart.category # "general" =>
             \E i \in 1..Len(partMappings) :
               /\ partMappings[i].parts[1].id = suggestedPart.id
               /\ suggestedPart.confidence <= partMappings[i].parts[1].confidence

\* every keyword of fren matches, so the 0.95 ceiling is what bounds the density
C5_Witness ==
  /\ pc = "returned"
  /\ CountKeywordMatches(toLowerCase(description), partMappings[1].keywords) = 9
  /\ suggestedPart.id = "part-fren-001"
  /\ suggestedPart.confidence = Mul(Percent(90), Percent(95))

\* ---- C6: a text whose lower-cased form contains "fren" and no other keyword
\* yields category "fren", 1 matched keyword and confidence
\* 0.9 * min(0.95, (1/9) * 0.8 + 0.2) = 0.26, below the fallback's 0.3.
C6_OnlyFren ==
  (pc = "returned" /\ KeywordsIn(toLowerCase(description)) = {<<"f", "r", "e", "n">>}) =>
    /\ suggestedPart.category = "fren"
    /\ suggestedPart.matchedKeywords = 1
    /\ suggestedPart.confidence = Percent(26)
    /\ suggestedPart.confidence < Percent(30)

C6_Witness ==
  /\ pc = "returned"
  /\ description = PhraseMidWord \o <<" ">> \o PhraseUpperFren
  /\ KeywordsIn(toLowerCase(description)) = {<<"f", "r", "e", "n">>}
  /\ suggestedPart.matchedKeywords = 1

\* ---- C7: generateSellersForPart returns k offers over a pool of p sellers
\* with min(2, p) <= k <= min(5, p); k never exceeds p.
C7_OfferCountRange ==
  (pc = "returned") =>
    LET p == Len(mockSellers.global_sellers)
        k == Len(sellers)
    IN  /\ (IF p < 2 THEN p ELSE 2) <= k
        /\ k <= (IF p < 5 THEN p ELSE 5)
        /\ k <= p

C7_Witness ==
  /\ pc = "returned"
  /\ Len(mockSellers.global_sellers) > 5
  /\ Len(sellers) = 5

\* ---- C8: every offer's price is an integer between 0.8 * base and
\* 1.2 * base (both whole for every base), where base is the one base price
\* of the call's partId: 800, 300, 200, 400, 250, 600, 150 or 100.
C8_PriceWithinTwentyPercent ==
  (pc = "returned") =>
    \E base \in {800, 300, 200, 400, 250, 600, 150, 100} :
      /\ base = BasePrice(partId)
      /\ \A i \in 1..Len(sellers) :
           /\ sellers[i].price \in Int
           /\ (4 * base) \div 5 <= sellers[i].price
           /\ sellers[i].price <= (6 * base) \div 5

\* one call whose offers reach both ends of the range
C8_Witness ==
  /\ pc = "returned"
  /\ \E i, j \in 1..Len(sellers) :
       /\ sellers[i].price = (4 * BasePrice(partId)) \div 5
       /\ sellers[j].price = (6 * BasePrice(partId)) \div 5

\* ---- C9: the base price of a partId is that of the first rule, in the order
\* motor 800, fren 300, elektrik 200, suspansiyon 400, klima 250, govde 600,
\* ic-aksam 150, whose substring occurs anywhere in the id, and 100 when none
\* occurs; the offers of a call are priced from it.
PriceRules ==
  << <<SubMotor, 800>>, <<SubFren, 300>>, <<SubElektrik, 200>>, <<SubSuspansiyon, 400>>,
     <<SubKlima, 250>>, <<SubGovde, 600>>, <<SubIcAksam, 150>> >>

FirstRulePrice(id) ==
  LET hits == {r \in 1..Len(PriceRules) : includes(id, PriceRules[r][1])}
  IN  IF hits = {} THEN 100 ELSE PriceRules[CHOOSE r \in hits : \A q \in hits : r <= q][2]

C9_FirstRuleInOrderWins ==
  (pc = "returned") =>
    /\ BasePrice(partId) = FirstRulePrice(partId)
    /\ \A i \in 1..Len(sellers) :
         /\ (4 * FirstRulePrice(partId)) \div 5 <= sellers[i].price
         /\ sellers[i].price <= (6 * FirstRulePrice(partId)) \div 5

\* "fren" stands before "motor" in the id, and the offers are priced from 800
C9_Witness ==
  /\ pc = "returned"
  /\ partId = PartFrenMotor
  /\ Len(sellers) >= 2
  /\ \A i \in 1..Len(sellers) : sellers[i].price >= 640

\* ---- C10: the list generateSellersForPart returns, and the sellers list of
\* every successful GET /api/sellers/:partId response, is non-decreasing by
\* price.
NonDecreasingByPrice(list) ==
  \A i \in 1..(Len(list) - 1) : list[i].price <= list[i + 1].price

C11_EmptyPoolNoSellers ==
  /\ (pc = "returned" /\ mockSellers.global_sellers = <<>>) => sellers = <<>>
  /\ (/\ pc = "responded"
      /\ mockSellers.global_sellers = <<>>
      /\ partId \notin DOMAIN mockSellers.entries)
       => /\ response.status = 404
          /\ response.error = "No sellers found"

C11_Witness ==
  /\ pc = "responded"
  /\ mockSellers.global_sellers = <<>>
  /\ partId = PartMotor
  /\ response.status = 404

\* ---- C12: the warranty of a partId containing "motor" is "2 yil garanti",
\* whatever else the id contains; that of a partId containing none of motor,
\* fren, elektrik, suspansiyon, klima, govde is "3 ay garanti"; all offers of
\* one GET /api/sellers/:partId response carry the one label of its partId.
WarrantySubstrings == {SubMotor, SubFren, SubElektrik, SubSuspansiyon, SubKlima, SubGovde}

ExpectedWarranty(id) ==
  IF includes(id, SubMotor) THEN {"2 yil garanti"}
  ELSE IF \A sub \in WarrantySubstrings : ~includes(id, sub) THEN {"3 ay garanti"}
  ELSE {"1 yil garanti", "6 ay garanti"}

C12_WarrantyLabels ==
  /\ generateWarranty(partId) \in ExpectedWarranty(partId)
  /\ (pc = "responded" /\ response.status = 200) =>
       /\ \A i, j \in 1..Len(response.sellers) :
            response.sellers[i].warranty = response.sellers[j].warranty
       /\ \A i \in 1..Len(response.sellers) :
            response.sellers[i].warranty \in ExpectedWarranty(partId)

\* "fren" stands before "motor" in the id, and every offer has two years
C12_Witness ==
  /\ pc = "responded"
  /\ response.status = 200
  /\ partId = PartFrenMotor
  /\ Len(response.sellers) >= 2
  /\ \A i \in 1..Len(response.sellers) : response.sellers[i].warranty = "2 yil garanti"

\* ---- C13: for a draw r in [0, 1) generateDeliveryTime returns the first
\* label, in the order "1-2 gun", "2-3 gun", "3-5 gun", "1 hafta", "Ayni gun",
\* whose cumulative weight 0.30, 0.60, 0.85, 0.95, 1.00 is >= r, and "1-2 gun"
\* if there is none; the result is one of the five labels, in the offers of a
\* response too.
StatedLabels == <<"1-2 gun", "2-3 gun", "3-5 gun", "1 hafta", "Ayni gun">>

\* in thousandths, the unit of a draw
StatedCumulative == <<300, 600, 850, 950, 1000>>

StatedDeliveryTime(r) ==
  LET triggered == {i \in 1..5 : StatedCumulative[i] >= r}
  IN  IF triggered = {} THEN StatedLabels[1]
      ELSE StatedLabels[CHOOSE i \in triggered : \A j \in triggered : i <= j]

C13_FirstTriggeredBucket ==
  /\ (pc = "delivery") =>
       /\ response.deliveryTime = StatedDeliveryTime(response.random)
       /\ \E i \in 1..5 : response.deliveryTime = StatedLabels[i]
  /\ (pc = "responded" /\ response.status = 200) =>
       \A k \in 1..Len(response.sellers) :
         \E i \in 1..5 : response.sellers[k].deliveryTime = StatedLabels[i]

\* a draw that equals a cumulative weight triggers that bucket
C13_Witness ==
  /\ pc = "delivery"
  /\ response.random = 950
  /\ response.deliveryTime = "1 hafta"

\* ---- C16: in every success response of POST /api/parts/interpret the
\* confidenceLevel is the documented band of the confidence the same response
\* reports (two decimals): "Yuksek" iff >= 0.80, "Orta" iff 0.60..0.79,
\* "Dusuk" iff 0.40..0.59, "Cok Dusuk" iff < 0.40.
C16_LevelMatchesReportedConfidence ==
  (pc = "responded" /\ response.status = 200) =>
    LET c == response.suggestedPart.confidence
        level == response.analysis.confidenceLevel
    IN  /\ (level = "Yuksek") <=> (c >= Percent(80))
        /\ (level = "Orta") <=> (Percent(60) <= c /\ c <= Percent(79))
        /\ (level = "Dusuk") <=> (Percent(40) <= c /\ c <= Percent(59))
        /\ (level = "Cok Dusuk") <=> (c < Percent(40))

\* ---- C18: interpretPartFromDescription calls interpretPartFromText only
\* after these checks passed, made in this order: vin and description both
\* present (else 400 "Missing required fields"), VIN format valid (else 400),
\* trimmed description of 5 characters or more (else 400 "Description too
\* short"), a vehicle of that VIN exists (else 404); a failed check sends its
\* one error response and the classifier is not called.
C18_ChecksBeforeClassifier ==
  (pc = "responded") =>
    LET missing == vin = <<>> \/ description = <<>>
        badFormat == ~isValidVIN(vin)
        short == Len(trim(description)) < 5
        unknown == \A k \in 1..Len(mockVehicles) : mockVehicles[k].vin # vin
        called == suggestedPart # Null
    IN  /\ missing =>
             /\ response.status = 400 /\ response.error = "Missing required fields"
             /\ ~called
        /\ (~missing /\ badFormat) =>
             /\ response.status = 400 /\ response.error = "Invalid VIN format"
             /\ ~called
        /\ (~missing /\ ~badFormat /\ short) =>
             /\ response.status = 400 /\ response.error = "Description too short"
             /\ ~called
        /\ (~missing /\ ~badFormat /\ ~short /\ unknown) =>
             /\ response.status = 404 /\ response.error = "Vehicle not found"
             /\ ~called
        /\ called <=> (~missing /\ ~badFormat /\ ~short /\ ~unknown)
        /\ called => response.status = 200

\* a well-formed VIN of no vehicle with a blank description: the description
\* is rejected, before the vehicle is looked up
C18_Witness ==
  /\ pc = "responded"
  /\ vin = VinLowerCase
  /\ description = PhraseBlank
  /\ response.status = 400
  /\ response.error = "Description too short"
  /\ suggestedPart = Null

\* ---- C19: in every successful GET /api/sellers/:partId response with
\* integer prices, priceRange.min is the price of the first seller listed,
\* priceRange.max that of the last, and min <= average <= max, where average
\* is the mean of the listed prices rounded to the nearest integer.
C19_PriceRange ==
  (/\ pc = "responded"
   /\ response.status = 200
   /\ \A i \in 1..Len(response.sellers) : response.sellers[i].price \in Int)
    =>
    LET n == Len(response.sellers)
        sum == SumPrices(response.sellers)
        range == response.priceRange
    IN  /\ range.min = response.sellers[1].price
        /\ range.max = response.sellers[n].price
        /\ range.min <= range.average
        /\ range.average <= range.max
        /\ 2 * n * range.average <= 2 * sum + n
        /\ 2 * sum + n < 2 * n * (range.average + 1)

\* the README's example: four sellers from 340 to 365, average 353
C19_Witness ==
  /\ pc = "responded"
  /\ response.status = 200
  /\ partId = PartFren
  /\ response.count = 4
  /\ response.priceRange = [min |-> 340, max |-> 365, average |-> 353]

\* ---- C20: for a text with a keyword match the confidence returned by
\* interpretPartFromText is the maximum, over the categories with a match,
\* of the base weight of the category's first part times the category's
\* density confidence; id and name are those of the winning category's first
\* part (part-fren-001, part-motor-037, part-elektrik-001,
\* part-suspansiyon-001 or part-klima-004), and matchedKeywords is the
\* winner's own match count, between 1 and the number of its keywords.
FirstPartIds ==
  {"part-fren-001", "part-motor-037", "part-elektrik-001", "part-suspansiyon-001",
   "part-klima-004"}

C14_CategoriesRoute ==
  (/\ pc = "responded"
   /\ request.method = "GET"
   /\ request.mount = "parts"
   /\ Len(request.path) = 2
   /\ request.path[2] = SegCategories)
    =>
    /\ handler = "getVehicleCategories"
    /\ response = getVehicleCategories(<<[name |-> "vin", value |-> request.path[1]]>>)
    /\ request.path[1] = VinKnown =>
         /\ response.status = 200
         /\ \A k \in 1..Len(response.categories) :
              response.categories[k].partCount \in Nat

\* ---- C15: a GET request to /api/vehicle/search, with or without the query
\* parameters make, model and year, is handled by searchVehicles and returns
\* the filtered list of vehicles with success: true.
C15_SearchRoute ==
  (/\ pc = "responded"
   /\ request.method = "GET"
   /\ request.mount = "vehicle"
   /\ request.path = <<SegSearch>>)
    =>
    /\ handler = "searchVehicles"
    /\ response.status = 200
    /\ response.success = TRUE
    /\ response = searchVehicles(request.query)

\* ---- C17: generateRequestId returns an id different from every id it
\* returned before, so over any sequence of createPartRequest calls, two in
\* the same millisecond included, no two requests are stored under one key
\* and no stored request is overwritten.
C17_RequestIdsUnique ==
  /\ \A i, j \in 1..Len(created) : i # j => created[i] # created[j]
  /\ Cardinality(DOMAIN pendingRequests) = Len(created)

\* ---- C21: every offer generateSellersForPart returns carries the name,
\* location, rating, phone and email of one seller of the pool unchanged, and
\* no pool position is the source of more than one offer of the call.
\* (The sellers of the pool differ from one another, so an offer has at most
\* one source.)
SourcesOf(offer, pool) ==
  {k \in 1..Len(pool) :
     /\ offer.name = pool[k].name
     /\ offer.location = pool[k].location
     /\ offer.rating = pool[k].rating
     /\ offer.phone = pool[k].phone
     /\ offer.email = pool[k].email}

C21_OffersCopyDistinctSellers ==
  (pc = "returned") =>
    /\ \A i \in 1..Len(sellers) : SourcesOf(sellers[i], mockSellers.global_sellers) # {}
    /\ \A i, j \in 1..Len(sellers) :
         i # j => SourcesOf(sellers[i], mockSellers.global_sellers)
                    \cap SourcesOf(sellers[j], mockSellers.global_sellers) = {}

\* five offers over a pool of five: every seller of the pool is the source
\* of one
C21_Witness ==
  /\ pc = "returned"
  /\ Len(mockSellers.global_sellers) = 5
  /\ Len(sellers) = 5
  /\ \A k \in 1..5 : \E i \in 1..5 : k \in SourcesOf(sellers[i], mockSellers.global_sellers)

\* ---- C22: over any sequence of createPartRequest and getRequestStatus
\* calls the status of a stored request starts as "pending" and moves only
\* forward along pending -> in_progress -> offers_received, one step per call
\* at most: pending -> in_progress only after more than 30 minutes,
\* in_progress -> offers_received only after more than 60 minutes, and never
\* pending -> offers_received in one call.
C22_StatusMovesForward ==
  [][ /\ \A id \in DOMAIN pendingRequests' \ DOMAIN pendingRequests :
           pendingRequests'[id].status = "pending"
      /\ \A id \in DOMAIN pendingRequests :
           /\ id \in DOMAIN pendingRequests'
           /\ LET before == pendingRequests[id]
                  after == pendingRequests'[id]
                  elapsed == now - before.createdAt
              IN  \/ after.status = before.status
                  \/ /\ before.status = "pending"
                     /\ after.status = "in_progress"
                     /\ elapsed > 30 * 60 * 1000
                  \/ /\ before.status = "in_progress"
                     /\ after.status = "offers_received"
                     /\ elapsed > 60 * 60 * 1000
    ]_vars

\* a request first polled after more than 60 minutes: one step, not two
C22_Witness ==
  \E id \in DOMAIN pendingRequests :
    /\ pendingRequests[id].status = "in_progress"
    /\ now - pendingRequests[id].createdAt > 60 * 60 * 1000
    /\ response = [status |-> 200, success |-> TRUE, data |-> pendingRequests[id]]

\* ---- C23: a stored request that keeps being polled with getRequestStatus
\* once more than 60 minutes have passed since its creation eventually has
\* status "offers_received", with offerCount in 1..5 and contactAttempts in
\* 1..3, and from then on the stored request never changes again.
C23_PolledRequestSettles ==
  /\ \A id \in PossibleRequestIds :
       (/\ id \in DOMAIN pendingRequests
        /\ now - pendingRequests[id].createdAt > 60 * 60 * 1000)
       ~> (/\ id \in DOMAIN pendingRequests
           /\ pendingRequests[id].status = "offers_received"
           /\ pendingRequests[id].offerCount \in 1..5
           /\ pendingRequests[id].contactAttempts \in 1..3)
  /\ [][ \A id \in DOMAIN pendingRequests :
           pendingRequests[id].status = "offers_received" =>
             /\ id \in DOMAIN pendingRequests'
             /\ pendingRequests'[id] = pendingRequests[id]
       ]_vars

\* a request created at the start and polled to its last status
C23_Witness ==
  \E id \in DOMAIN pendingRequests :
    /\ pendingRequests[id].status = "offers_received"
    /\ pendingRequests[id].offerCount = 5
    /\ pendingRequests[id].contactAttempts = 1
    /\ now - pendingRequests[id].createdAt > 60 * 60 * 1000
    /\ response = [status |-> 200, success |-> TRUE, data |-> pendingRequests[id]]

\* ---- C24: the store of part requests changes only by a successful
\* createPartRequest adding one new entry: a createPartRequest rejected with
\* 400 adds nothing, a getRequestStatus answered 404 changes nothing, and no
\* operation removes an entry or changes the requestId, vin, partId,
\* userEmail or createdAt of a stored request.
C24_StoreChangesOnlyByCreate ==
  [][ /\ DOMAIN pendingRequests \subseteq DOMAIN pendingRequests'
      /\ \A id \in DOMAIN pendingRequests :
           /\ pendingRequests'[id].requestId = pendingRequests[id].requestId
           /\ pendingRequests'[id].vin = pendingRequests[id].vin
           /\ pendingRequests'[id].partId = pendingRequests[id].partId
           /\ pendingRequests'[id].userEmail = pendingRequests[id].userEmail
           /\ pendingRequests'[id].createdAt = pendingRequests[id].createdAt
      /\ created' = created => DOMAIN pendingRequests' = DOMAIN pendingRequests
      /\ created' # created =>
           /\ Cardinality(DOMAIN pendingRequests' \ DOMAIN pendingRequests) = 1
           /\ \A id \in DOMAIN pendingRequests : pendingRequests'[id] = pendingRequests[id]
      /\ (response' # response /\ response'.status \in {400, 404}) =>
           pendingRequests' = pendingRequests
    ]_vars

====
